---- MODULE Spec2Model ----
(***************************************************************************)
(* Model of src/app/page.tsx: the Home component of the EXIF metadata      *)
(* viewer.  The component holds three pieces of hook state (metadata,      *)
(* imageSrc, gpsData) and two refs (mapRef, mapInstance).  handleFileChange *)
(* is an async handler that suspends at exifr.parse and at exifr.gps; the  *)
(* map effect depends on [gpsData] and owns the OpenLayers map.            *)
(*                                                                         *)
(* Numbers: coordinates are whole degrees, projected coordinates whole     *)
(* metres.  JavaScript values that may be undefined are tagged records so  *)
(* that values of different shapes can be compared.                        *)
(***************************************************************************)
EXTENDS Integers, Sequences, FiniteSets, TLC

\* How many file-selection events carrying a file one run contains.
MaxSelections == 2
\* How many file-selection events carrying no file one run contains.
MaxEmptyEvents == 1

(***************************************************************************)
(* JavaScript values                                                       *)
(***************************************************************************)
Null == [kind |-> "null"]
Undefined == [kind |-> "undefined", num |-> 0]
Num(n) == [kind |-> "number", num |-> n]

\* ToBoolean of a value that is a number or undefined: 0 is falsy.
Truthy(v) == v.kind = "number" /\ v.num # 0

\* A tag value: a scalar number, a scalar string or a nested structure.
Val(t, r) == [type |-> t, repr |-> r]

\* An object whose own enumerable properties are entries, in insertion order.
Obj(entries) == [kind |-> "object", entries |-> entries]
EmptyObj == Obj(<< >>)

Keys(o) == {o.entries[i][1] : i \in 1..Len(o.entries)}
Get(o, k) == LET i == CHOOSE j \in 1..Len(o.entries) : o.entries[j][1] = k
             IN o.entries[i][2]

(***************************************************************************)
(* The files a user can select, with what the two exifr calls do for each. *)
(***************************************************************************)
Files == {"sf.jpg", "paris.jpg", "sydney.jpg", "null_island.jpg", "equator.jpg",
          "partial.jpg", "plain.png", "empty.jpg", "corrupt.jpg", "gpsfail.jpg"}

Resolve(v) == [settle |-> "resolve", value |-> v]
Reject == [settle |-> "reject", value |-> Undefined]

GpsObj(lat, lon) == [kind |-> "object", latitude |-> lat, longitude |-> lon]

\* exifr.parse(file, {tiff, gps, xmp, jfif}): the full tag set, or a rejection.
ExifrParse(file) ==
  CASE file = "sf.jpg" ->
         Resolve(Obj(<< <<"Make", Val("string", "Canon")>>,
                        <<"MakerNote", Val("object", "bytes")>>,
                        <<"latitude", Val("number", "37")>>,
                        <<"longitude", Val("number", "-122")>>,
                        <<"thumbnail", Val("object", "bytes")>> >>))
    [] file = "paris.jpg" ->
         Resolve(Obj(<< <<"makernote", Val("string", "lower")>>,
                        <<"Thumbnail", Val("object", "bytes")>>,
                        <<"latitude", Val("number", "48")>> >>))
    [] file = "sydney.jpg" ->
         Resolve(Obj(<< <<"MakerNote", Val("object", "bytes")>>,
                        <<"error", Val("string", "tag")>> >>))
    [] file = "null_island.jpg" ->
         Resolve(Obj(<< <<"latitude", Val("number", "0")>>,
                        <<"longitude", Val("number", "0")>> >>))
    [] file = "equator.jpg" ->
         Resolve(Obj(<< <<"thumbnail", Val("object", "bytes")>>,
                        <<"latitude", Val("number", "0")>>,
                        <<"longitude", Val("number", "32")>> >>))
    [] file = "partial.jpg" ->
         Resolve(Obj(<< <<"Make", Val("string", "Nikon")>>,
                        <<"latitude", Val("number", "10")>> >>))
    [] file = "plain.png" -> Resolve(Undefined)
    [] file = "empty.jpg" -> Resolve(EmptyObj)
    [] file = "corrupt.jpg" -> Reject
    [] file = "gpsfail.jpg" ->
         Resolve(Obj(<< <<"Make", Val("string", "Sony")>>,
                        <<"latitude", Val("number", "37")>>,
                        <<"longitude", Val("number", "-122")>> >>))

\* exifr.gps(file): {latitude, longitude}, undefined, or a rejection.
ExifrGps(file) ==
  CASE file = "sf.jpg" -> Resolve(GpsObj(Num(37), Num(-122)))
    [] file = "paris.jpg" -> Resolve(GpsObj(Num(48), Num(2)))
    [] file = "sydney.jpg" -> Resolve(GpsObj(Num(-33), Num(151)))
    [] file = "null_island.jpg" -> Resolve(GpsObj(Num(0), Num(0)))
    [] file = "equator.jpg" -> Resolve(GpsObj(Num(0), Num(32)))
    [] file = "partial.jpg" -> Resolve(GpsObj(Num(10), Undefined))
    [] file = "plain.png" -> Resolve(Undefined)
    [] file = "empty.jpg" -> Resolve(Undefined)
    [] file = "corrupt.jpg" -> Reject
    [] file = "gpsfail.jpg" -> Reject

(***************************************************************************)
(* Pure parts of handleFileChange                                          *)
(***************************************************************************)
\* Mutant: an absent parser result is treated as a failed read.
OrEmptyOrError(allMetaData) ==
  IF allMetaData.kind = "object" THEN allMetaData
  ELSE Obj(<< <<"error", Val("string", "Failed to read EXIF metadata")>> >>)

\* allMetaData || {}
OrEmpty(allMetaData) ==
  IF allMetaData.kind = "object" THEN allMetaData ELSE EmptyObj

\* Mutant: only the maker-note key is dropped.
KeepEntryMakerNoteOnly(entry) == entry[1] # "MakerNote"

\* ([key]) => key !== 'MakerNote' && key !== 'thumbnail'
KeepEntry(entry) == entry[1] # "MakerNote" /\ entry[1] # "thumbnail"

\* Mutant: the pass over the entries stops one short of the end.
FilterMetadataSkipsLast(allMetaData) ==
  LET kept == SelectSeq(OrEmpty(allMetaData).entries, KeepEntry)
  IN Obj(IF kept = << >> THEN kept ELSE SubSeq(kept, 1, Len(kept) - 1))

\* Object.fromEntries(Object.entries(allMetaData || {}).filter(...))
FilterMetadata(allMetaData) ==
  Obj(SelectSeq(OrEmpty(allMetaData).entries, KeepEntry))

\* { error: 'Failed to read EXIF metadata' }
ErrorIndicator ==
  Obj(<< <<"error", Val("string", "Failed to read EXIF metadata")>> >>)

\* Mutant: a presence check instead of the truthiness check.
GpsAcceptedIfPresent(gpsMetaData) ==
  /\ gpsMetaData.kind = "object"
  /\ gpsMetaData.latitude.kind = "number"
  /\ gpsMetaData.longitude.kind = "number"

\* gpsMetaData && gpsMetaData.latitude && gpsMetaData.longitude
GpsAccepted(gpsMetaData) ==
  /\ gpsMetaData.kind = "object"
  /\ Truthy(gpsMetaData.latitude)
  /\ Truthy(gpsMetaData.longitude)

\* The argument of setGpsData: a fresh object (identity ref) or null.
NextGpsData(gpsMetaData, ref) ==
  IF GpsAccepted(gpsMetaData)
  THEN [kind |-> "object", latitude |-> gpsMetaData.latitude,
        longitude |-> gpsMetaData.longitude, ref |-> ref]
  ELSE Null

(***************************************************************************)
(* ol/proj fromLonLat: EPSG:4326 -> EPSG:3857, in whole metres.            *)
(***************************************************************************)
MetresPerDegree == 111319
HalfSize == 20037508

\* RADIUS * ln(tan(PI * (lat + 90) / 360)), rounded, for the latitudes and
\* longitudes the files carry; beyond the projection's extent the library
\* clamps to +-HALF_SIZE.
MercatorY(lat) ==
  CASE lat = 0 -> 0
    [] lat = 10 -> 1118890
    [] lat = 37 -> 4439107
    [] lat = 48 -> 6106855
    [] lat = -33 -> -3895304
    [] lat = 2 -> 222684
    [] lat = 32 -> 3763310
    [] OTHER -> IF lat > 0 THEN HalfSize ELSE -HalfSize

fromLonLat(lonLat) == << lonLat[1] * MetresPerDegree, MercatorY(lonLat[2]) >>

(***************************************************************************)
(* State                                                                   *)
(***************************************************************************)
VARIABLES
  mounted,        \* the Home component is in the tree
  metadata,       \* useState: the displayed tag mapping
  imageSrc,       \* useState: the preview URL or null
  gpsData,        \* useState: {latitude, longitude} or null
  mapRef,         \* useRef: the map container element (0 is null)
  mapInstance,    \* useRef: index into maps of the held Map (0 is null)
  maps,           \* every ol Map constructed so far
  elems,          \* how many map container elements were created
  attempts,       \* the invocations of handleFileChange that got a file
  emptyEvents,    \* change events that carried no file
  lastEvent,      \* what the latest change event carried
  objectUrls,     \* ids of the object URLs created and not revoked
  lastSettled,    \* the attempt whose state updates ran last (0 is none)
  renderedGps,    \* gpsData of the committed render (the effect's deps)
  renderPending,  \* a state update is waiting for its render
  effectPending,  \* a committed render's passive effects have not run yet
  cleanup,        \* the last effect run returned its cleanup function
  view            \* what the committed render shows

vars == << mounted, metadata, imageSrc, gpsData, mapRef, mapInstance, maps,
           elems, attempts, emptyEvents, lastEvent, objectUrls, lastSettled,
           renderedGps, renderPending, effectPending, cleanup, view >>

Zoom == 13

(***************************************************************************)
(* The map effect (useEffect with deps [gpsData]) on the refs it touches.  *)
(***************************************************************************)
Refs == [mapRef |-> mapRef, mapInstance |-> mapInstance, maps |-> maps,
         cleanup |-> cleanup]

\* Mutant: the coordinate pair is passed to fromLonLat as [latitude, longitude].
NewMapLatLon(target, gps) ==
  [target |-> target,
   marker |-> fromLonLat(<< gps.latitude.num, gps.longitude.num >>),
   center |-> fromLonLat(<< gps.latitude.num, gps.longitude.num >>),
   zoom |-> Zoom]

\* new Map({target, layers: [tiles, marker layer], view: {center, zoom}})
NewMap(target, gps) ==
  [target |-> target,
   marker |-> fromLonLat(<< gps.longitude.num, gps.latitude.num >>),
   center |-> fromLonLat(<< gps.longitude.num, gps.latitude.num >>),
   zoom |-> Zoom]

\* Mutant: the effect creates the map but returns no cleanup function.
MapEffectNoCleanup(r, gps) ==
  IF gps # Null /\ r.mapRef # 0
  THEN [r EXCEPT !.maps = Append(r.maps, NewMap(r.mapRef, gps)),
                 !.mapInstance = Len(r.maps) + 1,
                 !.cleanup = FALSE]
  ELSE [r EXCEPT !.cleanup = FALSE]

\* Mutant: the effect checks gpsData only, not mapRef.current.
MapEffectNoTargetGuard(r, gps) ==
  IF gps # Null
  THEN [r EXCEPT !.maps = Append(r.maps, NewMap(r.mapRef, gps)),
                 !.mapInstance = Len(r.maps) + 1,
                 !.cleanup = TRUE]
  ELSE [r EXCEPT !.cleanup = FALSE]

\* The effect body, run with the gpsData of the render that scheduled it.
MapEffect(r, gps) ==
  IF gps # Null /\ r.mapRef # 0
  THEN [r EXCEPT !.maps = Append(r.maps, NewMap(r.mapRef, gps)),
                 !.mapInstance = Len(r.maps) + 1,
                 !.cleanup = TRUE]
  ELSE [r EXCEPT !.cleanup = FALSE]

\* Mutant: the cleanup drops the reference without setTarget(undefined).
MapCleanupNoUnbind(r) ==
  IF r.mapInstance # 0 THEN [r EXCEPT !.mapInstance = 0] ELSE r

\* Mutant: the cleanup unbinds the map but keeps the reference.
MapCleanupKeepsRef(r) ==
  IF r.mapInstance # 0 THEN [r EXCEPT !.maps[r.mapInstance].target = 0] ELSE r

\* The function the effect returns: setTarget(undefined), drop the reference.
MapCleanup(r) ==
  IF r.mapInstance # 0
  THEN [r EXCEPT !.maps[r.mapInstance].target = 0, !.mapInstance = 0]
  ELSE r

\* React runs the previous effect's cleanup, then, if still mounted, the body.
FlushPassive(r, gps, isMounted) ==
  LET destroyed == IF r.cleanup THEN [MapCleanup(r) EXCEPT !.cleanup = FALSE]
                   ELSE r
  IN IF isMounted THEN MapEffect(destroyed, gps) ELSE destroyed

\* What the JSX shows for a given state.
Presentation(img, gps, meta) ==
  [preview |-> img,
   mapSection |-> gps # Null,
   metadataList |-> Len(meta.entries) > 0]

Init ==
  /\ mounted = TRUE
  /\ metadata = EmptyObj
  /\ imageSrc = Null
  /\ gpsData = Null
  /\ mapRef = 0
  /\ mapInstance = 0
  /\ maps = << >>
  /\ elems = 0
  /\ attempts = << >>
  /\ emptyEvents = 0
  /\ lastEvent = "none"
  /\ objectUrls = {}
  /\ lastSettled = 0
  /\ renderedGps = Null
  /\ renderPending = FALSE
  /\ effectPending = TRUE
  /\ cleanup = FALSE
  /\ view = Presentation(Null, Null, EmptyObj)

(***************************************************************************)
(* handleFileChange                                                        *)
(***************************************************************************)
Hooks == [metadata |-> metadata, imageSrc |-> imageSrc, gpsData |-> gpsData]

\* URL.createObjectURL(file): a fresh URL for every call.
CreateObjectURL(file, n) == [kind |-> "url", file |-> file, id |-> n]

\* Mutant: a new selection also resets metadata and gpsData.
OnFileResets(h, file, n) ==
  [h EXCEPT !.imageSrc = CreateObjectURL(file, n),
            !.metadata = EmptyObj,
            !.gpsData = Null]

\* Lines 27-28, up to the first await: the preview URL is set.
OnFile(h, file, n) == [h EXCEPT !.imageSrc = CreateObjectURL(file, n)]

\* Mutant: a result is dropped when a newer file has been selected since.
OnResolvedUnlessSuperseded(h, allMetaData, gpsMetaData, ref) ==
  IF h.imageSrc.id # ref THEN h
  ELSE [h EXCEPT !.metadata = FilterMetadata(allMetaData),
                 !.gpsData = NextGpsData(gpsMetaData, ref)]

\* Mutant: only metadata is set in the step that follows the second await.
OnResolvedMetadataOnly(h, allMetaData, gpsMetaData, ref) ==
  [h EXCEPT !.metadata = FilterMetadata(allMetaData)]

\* Lines 37-53: both calls resolved.
OnResolved(h, allMetaData, gpsMetaData, ref) ==
  [h EXCEPT !.metadata = FilterMetadata(allMetaData),
            !.gpsData = NextGpsData(gpsMetaData, ref)]

\* Mutant: the catch block leaves gpsData as it was.
OnRejectedKeepsGps(h) == [h EXCEPT !.metadata = ErrorIndicator]

\* Mutant: the catch block also clears the preview.
OnRejectedClearsPreview(h) ==
  [h EXCEPT !.metadata = ErrorIndicator, !.gpsData = Null, !.imageSrc = Null]

\* Lines 54-58: the catch block.
OnRejected(h) == [h EXCEPT !.metadata = ErrorIndicator, !.gpsData = Null]

\* Where the handler goes when an awaited call rejects: into the catch block,
\* after which the async function returns normally.
AfterReject(stage) == "returned"

\* A state setter of an unmounted component changes nothing.
SetHooks(h) ==
  /\ metadata' = IF mounted THEN h.metadata ELSE metadata
  /\ imageSrc' = IF mounted THEN h.imageSrc ELSE imageSrc
  /\ gpsData' = IF mounted THEN h.gpsData ELSE gpsData
  /\ renderPending' = (mounted \/ renderPending)

\* Mutant: an event without a file resets the preview.
OnNoFileClearsPreview(h) == [h EXCEPT !.imageSrc = Null]

\* Line 25, `if (!file) return`: what the handler does to the hook state.
OnNoFile(h) == h

\* e.target.files?.[0] is undefined: the handler returns at line 25.
SelectNoFile ==
  /\ mounted
  /\ emptyEvents < MaxEmptyEvents
  /\ emptyEvents' = emptyEvents + 1
  /\ lastEvent' = "nofile"
  /\ metadata' = OnNoFile(Hooks).metadata
  /\ imageSrc' = OnNoFile(Hooks).imageSrc
  /\ gpsData' = OnNoFile(Hooks).gpsData
  /\ renderPending' = (renderPending \/ OnNoFile(Hooks) # Hooks)
  /\ UNCHANGED << mounted, mapRef, mapInstance, maps, elems, attempts,
                  objectUrls, lastSettled, renderedGps, effectPending,
                  cleanup, view >>

\* Mutant: both exifr calls are issued at once, before the first await.
NewAttemptBothCalls(file) ==
  [file |-> file, pc |-> "parse", parseCalls |-> 1, gpsCalls |-> 1,
   allMetaData |-> Undefined]

\* The handler suspended at line 31: exifr.parse called, exifr.gps not yet.
NewAttempt(file) ==
  [file |-> file, pc |-> "parse", parseCalls |-> 1, gpsCalls |-> 0,
   allMetaData |-> Undefined]

\* A file was chosen: lines 24-31, up to the suspension at exifr.parse.
SelectFile(file) ==
  /\ mounted
  /\ Len(attempts) < MaxSelections
  /\ SetHooks(OnFile(Hooks, file, Len(attempts) + 1))
  /\ attempts' = Append(attempts, NewAttempt(file))
  /\ lastEvent' = "file"
  /\ objectUrls' = objectUrls \cup {Len(attempts) + 1}
  /\ UNCHANGED << mounted, mapRef, mapInstance, maps, elems, emptyEvents,
                  lastSettled, renderedGps, effectPending, cleanup, view >>

\* exifr.parse resolves: line 31 assigns, line 35 calls exifr.gps and suspends.
ParseResolves(a) ==
  /\ attempts[a].pc = "parse"
  /\ ExifrParse(attempts[a].file).settle = "resolve"
  /\ attempts' = [attempts EXCEPT ![a].pc = "gps",
                                  ![a].gpsCalls = @ + 1,
                                  ![a].allMetaData = ExifrParse(attempts[a].file).value]
  /\ UNCHANGED << mounted, metadata, imageSrc, gpsData, mapRef, mapInstance,
                  maps, elems, emptyEvents, lastEvent, objectUrls, lastSettled,
                  renderedGps, renderPending, effectPending, cleanup, view >>

\* exifr.parse rejects: control goes to the catch block.
ParseRejects(a) ==
  /\ attempts[a].pc = "parse"
  /\ ExifrParse(attempts[a].file).settle = "reject"
  /\ attempts' = [attempts EXCEPT ![a].pc = AfterReject("parse")]
  /\ IF AfterReject("parse") = "returned"
     THEN SetHooks(OnRejected(Hooks)) /\ lastSettled' = a
     ELSE UNCHANGED << metadata, imageSrc, gpsData, renderPending, lastSettled >>
  /\ UNCHANGED << mounted, mapRef, mapInstance, maps, elems, emptyEvents,
                  lastEvent, objectUrls, renderedGps, effectPending, cleanup,
                  view >>

\* exifr.gps resolves: lines 37-53 run to the end of the try block.
GpsResolves(a) ==
  /\ attempts[a].pc = "gps"
  /\ ExifrGps(attempts[a].file).settle = "resolve"
  /\ attempts' = [attempts EXCEPT ![a].pc = "returned"]
  /\ SetHooks(OnResolved(Hooks, attempts[a].allMetaData,
                         ExifrGps(attempts[a].file).value, a))
  /\ lastSettled' = a
  /\ UNCHANGED << mounted, mapRef, mapInstance, maps, elems, emptyEvents,
                  lastEvent, objectUrls, renderedGps, effectPending, cleanup,
                  view >>

\* exifr.gps rejects: control goes to the catch block.
GpsRejects(a) ==
  /\ attempts[a].pc = "gps"
  /\ ExifrGps(attempts[a].file).settle = "reject"
  /\ attempts' = [attempts EXCEPT ![a].pc = AfterReject("gps")]
  /\ IF AfterReject("gps") = "returned"
     THEN SetHooks(OnRejected(Hooks)) /\ lastSettled' = a
     ELSE UNCHANGED << metadata, imageSrc, gpsData, renderPending, lastSettled >>
  /\ UNCHANGED << mounted, mapRef, mapInstance, maps, elems, emptyEvents,
                  lastEvent, objectUrls, renderedGps, effectPending, cleanup,
                  view >>

(***************************************************************************)
(* React: render and commit, passive effects, unmount                      *)
(***************************************************************************)
SetRefs(r) ==
  /\ mapRef' = r.mapRef
  /\ mapInstance' = r.mapInstance
  /\ maps' = r.maps
  /\ cleanup' = r.cleanup

\* Effects left over from the previous commit run before the next render.
Flushed == IF effectPending THEN FlushPassive(Refs, renderedGps, mounted) ELSE Refs

\* The committed JSX attaches mapRef to the container div exactly when
\* gpsData is truthy (lines 132-137); a div that stays keeps its element.
Render ==
  /\ mounted
  /\ renderPending
  /\ LET r == Flushed
         attach == gpsData # Null /\ r.mapRef = 0
     IN /\ SetRefs([r EXCEPT !.mapRef = IF gpsData = Null THEN 0
                                        ELSE IF attach THEN elems + 1 ELSE @])
        /\ elems' = IF attach THEN elems + 1 ELSE elems
  /\ view' = Presentation(imageSrc, gpsData, metadata)
  /\ renderedGps' = gpsData
  /\ effectPending' = (gpsData # renderedGps)
  /\ renderPending' = FALSE
  /\ UNCHANGED << mounted, metadata, imageSrc, gpsData, attempts, emptyEvents,
                  lastEvent, objectUrls, lastSettled >>

\* The passive effects of the last commit run.
FlushEffects ==
  /\ effectPending
  /\ SetRefs(Flushed)
  /\ effectPending' = FALSE
  /\ UNCHANGED << mounted, metadata, imageSrc, gpsData, elems, attempts,
                  emptyEvents, lastEvent, objectUrls, lastSettled, renderedGps,
                  renderPending, view >>

\* The component is removed: pending effects are flushed, the ref is
\* detached, and the effect's cleanup is left to run.
Unmount ==
  /\ mounted
  /\ mounted' = FALSE
  /\ SetRefs([Flushed EXCEPT !.mapRef = 0])
  /\ effectPending' = TRUE
  /\ renderPending' = FALSE
  /\ UNCHANGED << metadata, imageSrc, gpsData, elems, attempts, emptyEvents,
                  lastEvent, objectUrls, lastSettled, renderedGps, view >>

Next ==
  \/ SelectNoFile
  \/ \E file \in Files : SelectFile(file)
  \/ \E a \in 1..Len(attempts) : ParseResolves(a)
  \/ \E a \in 1..Len(attempts) : ParseRejects(a)
  \/ \E a \in 1..Len(attempts) : GpsResolves(a)
  \/ \E a \in 1..Len(attempts) : GpsRejects(a)
  \/ Render
  \/ FlushEffects
  \/ Unmount

Spec == Init /\ [][Next]_vars

(***************************************************************************)
(* Properties                                                              *)
(***************************************************************************)
\* The maps that are bound to a display target.
LiveMaps == {i \in 1..Len(maps) : maps[i].target # 0}

\* The render of the current state is committed and its effects have run.
Settled == mounted /\ ~renderPending /\ ~effectPending

\* C1: at every instant at most one map is bound to a display target, and
\* a bound map is always the most recently constructed one and the one
\* mapInstance holds: every older map was unbound and its reference dropped
\* before its successor was constructed.
C1_AtMostOneLiveMap ==
  /\ Cardinality(LiveMaps) <= 1
  /\ \A i \in LiveMaps : i = Len(maps) /\ i = mapInstance

\* C1 witness: the GPS state changed while a map was live; the first map
\* is unbound and a second one is live.
C1_Witness ==
  /\ Len(maps) >= 2
  /\ maps[1].target = 0
  /\ LiveMaps = {Len(maps)}
  /\ mapInstance = Len(maps)

\* C2: in every settled state a live map is held (mapInstance is non-null
\* and that map is bound to the attached container) if and only if gpsData
\* is non-null.
C2_MapIffGps ==
  Settled =>
    /\ (mapInstance # 0) <=> (gpsData # Null)
    /\ (LiveMaps # {}) <=> (gpsData # Null)
    /\ mapInstance # 0 => /\ maps[mapInstance].target = mapRef
                          /\ mapRef # 0

\* C2 witness: a settled state in which gpsData went absent after a map
\* had been live: the map is gone and nothing is held.
C2_Witness ==
  /\ Settled
  /\ gpsData = Null
  /\ Len(maps) >= 1
  /\ mapInstance = 0
  /\ mapRef = 0

\* The file of attempt a yields a valid GPS coordinate.
YieldsGps(a) ==
  /\ ExifrParse(attempts[a].file).settle = "resolve"
  /\ ExifrGps(attempts[a].file).settle = "resolve"
  /\ ExifrGps(attempts[a].file).value.kind = "object"
  /\ ExifrGps(attempts[a].file).value.latitude.kind = "number"
  /\ ExifrGps(attempts[a].file).value.latitude.num # 0
  /\ ExifrGps(attempts[a].file).value.longitude.kind = "number"
  /\ ExifrGps(attempts[a].file).value.longitude.num # 0

AllReturned == \A a \in 1..Len(attempts) : attempts[a].pc = "returned"

\* N selections, each of a file with a valid GPS coordinate, no two alike.
DistinctGpsSelections ==
  /\ Len(attempts) >= 1
  /\ \A a \in 1..Len(attempts) : YieldsGps(a)
  /\ \A a, b \in 1..Len(attempts) :
       a # b => ExifrGps(attempts[a].file).value # ExifrGps(attempts[b].file).value

\* The projection of the coordinate exifr.gps reports for attempt a's file.
ProjectedCoordinate(a) ==
  LET g == ExifrGps(attempts[a].file).value
  IN << g.longitude.num * MetresPerDegree, MercatorY(g.latitude.num) >>

\* C3: after N selections of files with distinct valid GPS coordinates have
\* all resolved and the effects have run, exactly one map is live, and its
\* center and marker are the projection of the coordinate of the attempt
\* that resolved last.
C3_LastResolvedMap ==
  (Settled /\ AllReturned /\ DistinctGpsSelections) =>
    /\ Cardinality(LiveMaps) = 1
    /\ \A i \in LiveMaps :
         /\ maps[i].center = ProjectedCoordinate(lastSettled)
         /\ maps[i].marker = ProjectedCoordinate(lastSettled)
         /\ maps[i].zoom = 13

\* C3 witness: two such selections, the first of which resolved last.
C3_Witness ==
  /\ Settled /\ AllReturned /\ DistinctGpsSelections
  /\ Len(attempts) = 2
  /\ lastSettled = 1
  /\ LiveMaps # {}

\* One of the two exifr calls rejects for the file of attempt a.
Rejects(a) ==
  \/ ExifrParse(attempts[a].file).settle = "reject"
  \/ ExifrGps(attempts[a].file).settle = "reject"

\* C4: a rejection of exifr.parse or exifr.gps never leaves the handler as
\* a fault (every attempt is suspended or has returned normally); once the
\* rejected attempt has run its updates, metadata is exactly the one-entry
\* error indicator and gpsData is null, and once effects have settled no map
\* is live, held or shown, whatever was there before.
C4_RejectionHandled ==
  /\ \A a \in 1..Len(attempts) : attempts[a].pc \in {"parse", "gps", "returned"}
  /\ (mounted /\ lastSettled # 0 /\ Rejects(lastSettled)) =>
       /\ Len(metadata.entries) = 1
       /\ metadata.entries[1] =
            << "error", [type |-> "string", repr |-> "Failed to read EXIF metadata"] >>
       /\ gpsData = Null
       /\ Settled => (LiveMaps = {} /\ mapInstance = 0 /\ ~view.mapSection)

\* C4 witness: a rejected attempt settled last while a map from an earlier
\* file had been live; the error indicator shows and the map is gone.
C4_Witness ==
  /\ Settled
  /\ lastSettled # 0
  /\ Rejects(lastSettled)
  /\ attempts[lastSettled].pc = "returned"
  /\ Len(maps) >= 1
  /\ metadata = ErrorIndicator

\* Both exifr calls resolve for the file of attempt a.
BothResolve(a) ==
  /\ ExifrParse(attempts[a].file).settle = "resolve"
  /\ ExifrGps(attempts[a].file).settle = "resolve"

\* C5: after an attempt for which both calls resolved has run its updates,
\* gpsData holds the extractor's latitude and longitude exactly when the
\* extractor's result is an object whose latitude and longitude are both
\* non-zero numbers; otherwise gpsData is null, whatever the tag set holds.
C5_GpsTruthiness ==
  (mounted /\ lastSettled # 0 /\ BothResolve(lastSettled)) =>
    LET g == ExifrGps(attempts[lastSettled].file).value
        ok == /\ g.kind = "object"
              /\ g.latitude.kind = "number" /\ g.latitude.num # 0
              /\ g.longitude.kind = "number" /\ g.longitude.num # 0
    IN IF ok
       THEN /\ gpsData # Null
            /\ gpsData.latitude = g.latitude
            /\ gpsData.longitude = g.longitude
       ELSE gpsData = Null

\* C5 witness: the extractor reported (0, 0) and the tag set carries
\* latitude and longitude tags; gpsData is null.
C5_Witness ==
  /\ mounted
  /\ lastSettled # 0
  /\ attempts[lastSettled].file = "null_island.jpg"
  /\ {"latitude", "longitude"} \subseteq Keys(metadata)
  /\ gpsData = Null

\* The keys of the tag parser's result (none when the result is undefined).
RawKeys(v) == IF v.kind = "object" THEN Keys(v) ELSE {}

\* C6: after an attempt for which both calls resolved has run its updates,
\* the keys of metadata are the keys of the parser's result other than
\* 'MakerNote' and 'thumbnail', each once and each with the parser's value.
C6_FilteredEntries ==
  (mounted /\ lastSettled # 0 /\ BothResolve(lastSettled)) =>
    LET raw == ExifrParse(attempts[lastSettled].file).value
    IN /\ Keys(metadata) = RawKeys(raw) \ {"MakerNote", "thumbnail"}
       /\ Len(metadata.entries) = Cardinality(Keys(metadata))
       /\ \A k \in Keys(metadata) : Get(metadata, k) = Get(raw, k)

\* C6 witness: a file with five tags, maker note and thumbnail among them,
\* was extracted; three entries are displayed.
C6_Witness ==
  /\ mounted
  /\ lastSettled # 0
  /\ attempts[lastSettled].file = "sf.jpg"
  /\ Keys(metadata) = {"Make", "latitude", "longitude"}

\* What the updates of attempt a set, from what exifr does for its file.
Produced(a) ==
  IF Rejects(a)
  THEN [metadata |-> ErrorIndicator, gpsData |-> Null]
  ELSE [metadata |-> FilterMetadata(ExifrParse(attempts[a].file).value),
        gpsData |-> NextGpsData(ExifrGps(attempts[a].file).value, a)]

\* The next step of attempt a.
Continue(a) ==
  ParseResolves(a) \/ ParseRejects(a) \/ GpsResolves(a) \/ GpsRejects(a)

\* C7: an attempt that has not returned can always take its next step, no
\* matter which files were selected after it (nothing cancels it), and when
\* several attempts have all returned, metadata and gpsData are the ones
\* produced by the attempt that completed last, older or newer.
C7_LastCompletionWins ==
  /\ \A a \in 1..Len(attempts) : attempts[a].pc # "returned" => ENABLED Continue(a)
  /\ (mounted /\ Len(attempts) >= 2 /\ AllReturned) =>
       /\ metadata = Produced(lastSettled).metadata
       /\ gpsData = Produced(lastSettled).gpsData

\* C7 witness: the second file was selected while the first was in flight
\* and the first completed last; its results are the ones displayed.
C7_Witness ==
  /\ mounted
  /\ Len(attempts) = 2
  /\ AllReturned
  /\ lastSettled = 1
  /\ Produced(1).metadata # Produced(2).metadata
  /\ gpsData = Produced(1).gpsData
  /\ imageSrc.id = 2

\* C8: once the effect phase after an exit from Active has run, nothing of
\* the left state remains: a bound map or a held reference exists only
\* while the component is mounted with non-null committed gpsData, and it
\* is then the newest map, bound and held at once.
C8_ExitReleasesMap ==
  ~effectPending =>
    /\ \A i \in LiveMaps :
         mounted /\ renderedGps # Null /\ i = mapInstance /\ i = Len(maps)
    /\ mapInstance # 0 =>
         mounted /\ renderedGps # Null /\ mapInstance \in LiveMaps

\* C8 witness: the component was unmounted while a map was live and the
\* cleanup has run: every map is unbound and no reference is held.
C8_Witness ==
  /\ ~mounted
  /\ ~effectPending
  /\ renderedGps # Null
  /\ Len(maps) >= 1
  /\ LiveMaps = {}
  /\ mapInstance = 0

\* C9: a change event that carries no file leaves imageSrc, metadata,
\* gpsData and the map untouched, creates no object URL and starts no
\* extraction attempt (no exifr call).
C9_NoFileNoOp ==
  [][emptyEvents' # emptyEvents =>
       UNCHANGED << imageSrc, metadata, gpsData, mapRef, mapInstance, maps,
                    objectUrls, attempts, renderPending, effectPending,
                    view >>]_vars

\* C9 witness: an event without a file arrived after a file had been
\* selected.
C9_Witness ==
  /\ lastEvent = "nofile"
  /\ Len(attempts) >= 1
  /\ imageSrc # Null

\* C10: imageSrc is always the object URL created for the most recently
\* selected file (null before the first selection); no extraction outcome
\* clears or changes it.
C10_PreviewIsLatestFile ==
  imageSrc = IF Len(attempts) = 0 THEN Null
             ELSE [kind |-> "url", file |-> attempts[Len(attempts)].file,
                   id |-> Len(attempts)]

\* C10 witness: the older of two attempts failed after the newer file was
\* selected; the preview still shows the newer file.
C10_Witness ==
  /\ mounted
  /\ Len(attempts) = 2
  /\ lastSettled = 1
  /\ Rejects(1)
  /\ attempts[1].pc = "returned"
  /\ metadata = ErrorIndicator
  /\ imageSrc.file = attempts[2].file

\* C11: each new selection releases the object URL created for the previous
\* file, so at most one created object URL is unreleased at any time.
C11_AtMostOneUnreleasedUrl == Cardinality(objectUrls) <= 1

\* The file of attempt a has no EXIF data: the tag parser resolves with
\* undefined or with an empty object and the GPS extractor with undefined.
NoExif(a) ==
  /\ ExifrParse(attempts[a].file).settle = "resolve"
  /\ RawKeys(ExifrParse(attempts[a].file).value) = {}
  /\ ExifrGps(attempts[a].file) = Resolve(Undefined)

\* C12: after the attempt for a file without EXIF data has run its updates,
\* metadata is the empty mapping (not the error indicator) and gpsData is
\* null; once effects have settled no map is live or held, and neither the
\* map section nor the metadata list is rendered.
C12_NoExifIsSuccess ==
  (mounted /\ lastSettled # 0 /\ NoExif(lastSettled)) =>
    /\ metadata.kind = "object"
    /\ Len(metadata.entries) = 0
    /\ gpsData = Null
    /\ Settled => /\ LiveMaps = {}
                  /\ mapInstance = 0
                  /\ ~view.mapSection
                  /\ ~view.metadataList

\* C12 witness: a file whose parser result is undefined was extracted after
\* a file with tags and GPS data; the view has settled with nothing but the
\* preview.
C12_Witness ==
  /\ Settled
  /\ lastSettled = 2
  /\ attempts[2].file = "plain.png"
  /\ Len(maps) >= 1
  /\ metadata = EmptyObj
  /\ ~view.metadataList
  /\ view.preview # Null

(***************************************************************************)
(* The effect body on its own: every combination of gpsData, container     *)
(* element and earlier maps, among them the one the guard at line 63 is    *)
(* written for and the component's commits never produce: gpsData set and  *)
(* mapRef.current null.                                                    *)
(***************************************************************************)
\* How many maps were constructed and torn down before the effect fires.
MaxPriorMaps == 1

GpsInputs ==
  {Null} \cup
  {[kind |-> "object", latitude |-> Num(c[1]), longitude |-> Num(c[2]), ref |-> 1] :
     c \in {<<37, -122>>, <<48, 2>>, <<-33, 151>>}}

PriorMaps ==
  UNION {[1..n -> {NewMap(0, g) : g \in GpsInputs \ {Null}}] : n \in 0..MaxPriorMaps}

EffectInit ==
  /\ mounted = TRUE
  /\ metadata = EmptyObj
  /\ imageSrc = Null
  /\ gpsData \in GpsInputs
  /\ renderedGps = gpsData
  /\ mapRef \in 0..2
  /\ elems = mapRef
  /\ mapInstance = 0
  /\ maps \in PriorMaps
  /\ cleanup \in BOOLEAN
  /\ attempts = << >>
  /\ emptyEvents = 0
  /\ lastEvent = "none"
  /\ objectUrls = {}
  /\ lastSettled = 0
  /\ renderPending = FALSE
  /\ effectPending = TRUE
  /\ view = Presentation(imageSrc, gpsData, metadata)

\* The effect body runs once on the drawn refs (lines 62-107).
EffectFires ==
  /\ effectPending
  /\ SetRefs(MapEffect(Refs, renderedGps))
  /\ effectPending' = FALSE
  /\ UNCHANGED << mounted, metadata, imageSrc, gpsData, elems, attempts,
                  emptyEvents, lastEvent, objectUrls, lastSettled, renderedGps,
                  renderPending, view >>

EffectNext == EffectFires

EffectSpec == EffectInit /\ [][EffectNext]_vars

\* C13: when the effect fires with non-null gpsData while mapRef.current is
\* null, it does nothing: no map is constructed, the held reference stays
\* null, the ref stays detached and no cleanup function is returned.
C13_DetachedTargetNoOp ==
  [][(effectPending /\ ~effectPending' /\ renderedGps # Null /\ mapRef = 0) =>
       /\ maps' = maps
       /\ mapInstance' = 0
       /\ mapRef' = 0
       /\ cleanup' = FALSE]_vars

\* C13 witness: the effect has fired with GPS data and no container
\* element, after an earlier map; nothing was constructed or registered.
C13_Witness ==
  /\ ~effectPending
  /\ renderedGps # Null
  /\ mapRef = 0
  /\ Len(maps) = 1
  /\ mapInstance = 0
  /\ ~cleanup

(***************************************************************************)
(* The metadata filter on its own: one attempt suspended at exifr.gps      *)
(* whose parser result is any tag mapping of up to MaxTags entries.        *)
(***************************************************************************)
\* How many entries a drawn tag mapping has at most.
MaxTags == 3

TagKeys == {"MakerNote", "thumbnail", "Make", "makernote", "latitude"}

TagValue(k) ==
  CASE k = "MakerNote" -> Val("object", "bytes")
    [] k = "thumbnail" -> Val("object", "bytes")
    [] k = "latitude" -> Val("number", "37")
    [] OTHER -> Val("string", "Canon")

\* undefined, or an object with distinct keys in any insertion order.
TagInputs ==
  {Undefined} \cup
  {Obj([i \in 1..Len(ks) |-> << ks[i], TagValue(ks[i]) >>]) :
     ks \in UNION {{s \in [1..n -> TagKeys] :
                      \A i, j \in 1..n : i # j => s[i] # s[j]} : n \in 0..MaxTags}}

FilterInit ==
  /\ mounted = TRUE
  /\ metadata = EmptyObj
  /\ gpsData = Null
  /\ \E file \in {"sf.jpg", "plain.png"}, tags \in TagInputs :
       /\ imageSrc = CreateObjectURL(file, 1)
       /\ attempts = << [file |-> file, pc |-> "gps", parseCalls |-> 1,
                         gpsCalls |-> 1, allMetaData |-> tags] >>
  /\ mapRef = 0
  /\ mapInstance = 0
  /\ maps = << >>
  /\ elems = 0
  /\ emptyEvents = 0
  /\ lastEvent = "file"
  /\ objectUrls = {1}
  /\ lastSettled = 0
  /\ renderedGps = Null
  /\ renderPending = FALSE
  /\ effectPending = FALSE
  /\ cleanup = FALSE
  /\ view = Presentation(imageSrc, Null, EmptyObj)

\* exifr.gps resolves and lines 37-53 run on the drawn tag mapping.
FilterNext == \E a \in 1..Len(attempts) : GpsResolves(a)

FilterSpec == FilterInit /\ [][FilterNext]_vars

\* C14: the metadata filter is idempotent: the mapping it produced from any
\* parser result is left as it is by a second application.
C14_FilterIdempotent ==
  \A a \in 1..Len(attempts) :
    attempts[a].pc = "returned" => FilterMetadata(metadata) = metadata

\* C14 witness: a mapping holding both dropped keys and another key was
\* filtered; the one remaining entry is displayed.
C14_Witness ==
  /\ attempts[1].pc = "returned"
  /\ RawKeys(attempts[1].allMetaData) = {"MakerNote", "thumbnail", "Make"}
  /\ Keys(metadata) = {"Make"}

\* C15: in every state after some attempt has run its updates, metadata and
\* gpsData are both the ones that one attempt, the latest to run its
\* updates, produced: never metadata of one file with GPS data of another,
\* however the attempts overlap.
C15_UpdatedTogether ==
  (mounted /\ lastSettled # 0) =>
    /\ attempts[lastSettled].pc = "returned"
    /\ metadata = Produced(lastSettled).metadata
    /\ gpsData = Produced(lastSettled).gpsData

\* C15 witness: two attempts overlap; the first has run its updates while
\* the second is suspended between its two awaits, and the two files differ
\* in both metadata and GPS data.
C15_Witness ==
  /\ mounted
  /\ Len(attempts) = 2
  /\ lastSettled = 1
  /\ attempts[2].pc = "gps"
  /\ gpsData # Null
  /\ ~Rejects(2)
  /\ Produced(2).gpsData = Null
  /\ Produced(2).metadata # metadata

\* Per attempt: exifr.parse was called once; exifr.gps was called once if
\* exifr.parse has resolved, and not at all if it is pending or rejected.
CallsInOrder ==
  \A a \in 1..Len(attempts) :
    /\ attempts[a].parseCalls = 1
    /\ attempts[a].gpsCalls =
         IF attempts[a].pc # "parse" /\ ExifrParse(attempts[a].file).settle = "resolve"
         THEN 1 ELSE 0

\* Attempt a returns in this step.
Returns(a) == attempts[a].pc # "returned" /\ attempts'[a].pc = "returned"

\* C16 as stated: the calls are made once each and in order, and no state
\* update of any kind happens in a step other than the one in which an
\* attempt returns after both of its calls have settled.
C16_NoUpdateBeforeBothSettle ==
  /\ []CallsInOrder
  /\ [][(metadata' # metadata \/ gpsData' # gpsData \/ imageSrc' # imageSrc) =>
          \E a \in 1..Len(attempts) : attempts[a].pc = "gps" /\ Returns(a)]_vars

\* C16 amended: the calls are made once each and in order (exifr.gps only
\* after exifr.parse resolved, never after it rejected, neither repeated),
\* and metadata and gpsData change only in the step in which an attempt
\* returns, when every call it made has settled.
C16_CallOrder ==
  /\ []CallsInOrder
  /\ [][(metadata' # metadata \/ gpsData' # gpsData) =>
          \E a \in 1..Len(attempts) : Returns(a)]_vars

\* C16 witness: one attempt returned after a parser rejection without ever
\* calling exifr.gps, another after both calls resolved.
C16_Witness ==
  /\ Len(attempts) = 2
  /\ AllReturned
  /\ ExifrParse(attempts[1].file).settle = "reject"
  /\ attempts[1].gpsCalls = 0
  /\ BothResolve(2)
  /\ attempts[2].gpsCalls = 1
  /\ attempts[2].parseCalls = 1

\* The newest selected file's extraction has not returned yet.
NewestInFlight ==
  Len(attempts) >= 1 /\ attempts[Len(attempts)].pc # "returned"

\* C17: the step that selects a file gives imageSrc a new URL and leaves
\* metadata, gpsData, the refs and every map as they were; while the newest
\* file's extraction is in flight, metadata and gpsData are those of the
\* attempt that completed last (the initial ones if none has), and in a
\* settled view the live map is the one for that gpsData.
C17_SelectionOnlySetsPreview ==
  /\ [][Len(attempts') > Len(attempts) =>
          /\ imageSrc' # imageSrc
          /\ UNCHANGED << metadata, gpsData, mapRef, mapInstance, maps, cleanup >>]_vars
  /\ []((mounted /\ NewestInFlight) =>
          /\ metadata = IF lastSettled = 0 THEN EmptyObj
                        ELSE Produced(lastSettled).metadata
          /\ gpsData = IF lastSettled = 0 THEN Null
                       ELSE Produced(lastSettled).gpsData
          /\ Settled => (LiveMaps # {}) = (gpsData # Null))

\* C17 witness: the view has settled while the second file is still being
\* parsed: the preview shows the second file, the metadata and the live map
\* are those of the first.
C17_Witness ==
  /\ Settled
  /\ Len(attempts) = 2
  /\ attempts[2].pc = "parse"
  /\ lastSettled = 1
  /\ attempts[1].file # attempts[2].file
  /\ view.preview = CreateObjectURL(attempts[2].file, 2)
  /\ metadata = Produced(1).metadata
  /\ Len(metadata.entries) > 0
  /\ view.mapSection
  /\ LiveMaps # {}

====
